---- MODULE Spec2Model ----
(***************************************************************************)
(* FunnelHashTable (src/funnel_hash/_funnel_hash.pyx): a fixed-capacity    *)
(* open-addressing table made of geometrically shrinking levels of         *)
(* beta-wide buckets plus a bounded-probe special (overflow) array.        *)
(*                                                                         *)
(* One behaviour is the life of one table: Init is the state __init__      *)
(* leaves (data = None), and every step is one public call run to          *)
(* completion (the table is single-threaded).  Indices are 0-based as in   *)
(* the source: levels, slots and the special array are functions on        *)
(* 0..n-1.  Keys are small non-negative Python ints, for which             *)
(* hash(key) = key.                                                        *)
(***************************************************************************)
EXTENDS Integers, Sequences, FiniteSets

\* ---------------------------------------------------------------- bounds
\* Keys are the ints 0..MaxKey, and every salt next_positive_random() returns
\* is drawn from 0..MaxSalt.
MaxKey == 1
MaxSalt == 0

\* The constructor is called with every capacity 0..MaxCapacity.
MaxCapacity == 30

Keys == 0 .. MaxKey
SaltSet == 0 .. MaxSalt

\* The table never hashes, compares or inspects a value: two distinct values
\* are what it takes to tell an overwritten value from a stale one.
Values == {0, 1}

\* (capacity, delta) pairs a table is constructed with; delta is the rational
\* <<numerator, denominator>>.  Each pair is one the double arithmetic of
\* __init__ evaluates exactly as the integer arithmetic below does.
\*   <<5, 1, 5>>   capacity=5, delta=0.2  : no level, special_size 1, max_inserts 4
\*   <<3, 1, 2>>   capacity=3, delta=0.5  : one level of one 2-slot bucket
\*   <<5, 3, 8>>   capacity=5, delta=0.375: one level of one 3-slot bucket,
\*                 special_size 1, max_inserts 4
Configs == { <<5, 1, 5>>, <<3, 1, 2>>, <<5, 3, 8>> }

\* The arguments the constructor is called with: capacity 0 is invalid, and
\* so is delta = 1; the double arithmetic of __init__ gives, for each of the
\* other pairs, what the integer arithmetic below gives.
Capacities == 0 .. MaxCapacity
Deltas == { <<1, 2>>, <<3, 4>>, <<1, 4>>, <<1, 5>>, <<1, 10>>, <<3, 8>>, <<1, 8>>,
            <<7, 8>>, <<5, 8>>, <<9, 10>>, <<1, 3>>, <<2, 3>>, <<1, 1>> }

\* ------------------------------------------------------------- sentinels
\* Python's None in a default-constructed _Entry, and the _NO_FALLBACK object.
None == -1
NO_FALLBACK == -2

\* A default-constructed entry, _Entry().
EmptyEntry == [key |-> None, value |-> None, occupied |-> FALSE]

\* _Entry(key, value, True)
Entry(key, value) == [key |-> key, value |-> value, occupied |-> TRUE]

\* ------------------------------------------------------------ arithmetic
Max(a, b) == IF a >= b THEN a ELSE b
Min(a, b) == IF a <= b THEN a ELSE b

RECURSIVE Pow(_, _)
Pow(b, n) == IF n = 0 THEN 1 ELSE b * Pow(b, n - 1)

\* a ^ b on non-negative ints, bit by bit.
RECURSIVE BitXor(_, _)
BitXor(a, b) ==
    IF a = 0 THEN b
    ELSE IF b = 0 THEN a
    ELSE (((a % 2) + (b % 2)) % 2) + 2 * BitXor(a \div 2, b \div 2)

\* a & b on non-negative ints, bit by bit.
RECURSIVE BitAnd(_, _)
BitAnd(a, b) ==
    IF a = 0 \/ b = 0 THEN 0
    ELSE ((a % 2) * (b % 2)) + 2 * BitAnd(a \div 2, b \div 2)

\* 0x7FFFFFFF
Mask31 == 2147483647

\* hash(key) of a small non-negative Python int is the int itself.
PyHash(key) == key

\* _hash(key, salt): (hash(key) ^ salt) & 0x7FFFFFFF
Hash(key, salt) == BitAnd(BitXor(PyHash(key), salt), Mask31)

\* ------------------------------------------------------- parameter deriver
\* int(ceil(m * log2(1 / delta))) for delta = num/den < 1: the least n with
\* 2^n >= (den/num)^m, i.e. 2^n * num^m >= den^m.
RECURSIVE CeilLog2From(_, _, _)
CeilLog2From(n, lhs, rhs) ==
    IF lhs >= rhs THEN n ELSE CeilLog2From(n + 1, 2 * lhs, rhs)

CeilMulLog2Inv(m, delta) == CeilLog2From(0, Pow(delta[1], m), Pow(delta[2], m))

\* capacity - int(delta * capacity)
MaxInsertsOf(cap, delta) == cap - ((delta[1] * cap) \div delta[2])

\* int(ceil(4 * log2(1 / delta) + 10))
AlphaOf(delta) == CeilMulLog2Inv(4, delta) + 10

\* int(ceil(2 * log2(1 / delta)))
BetaOf(delta) == CeilMulLog2Inv(2, delta)

\* max(1, int(3 * delta * capacity / 4))
SpecialSizeOf(cap, delta) == Max(1, (3 * delta[1] * cap) \div (4 * delta[2]))

\* PrimarySizeOf without the special array taken off the capacity.
PrimarySizeWhole(cap, delta) == cap

\* capacity - special_size
PrimarySizeOf(cap, delta) == cap - SpecialSizeOf(cap, delta)

\* Fixed-point unit for the powers of 0.75.
FixOne == 1048576

\* pow(0.75, n) in units of 1/FixOne.
RECURSIVE Pow075(_)
Pow075(n) == IF n = 0 THEN FixOne ELSE (3 * Pow075(n - 1)) \div 4

\* round(num / den) for a positive quotient that is not a tie.
Round(num, den) == (2 * num + den) \div (2 * den)

\* max(1, int(round(a1 * pow(0.75, i)))) with
\* a1 = total_buckets / (4 * (1 - pow(0.75, alpha)))
LevelSize(total, alpha, i) ==
    Max(1, Round(total * Pow075(i), 4 * (FixOne - Pow075(alpha))))

\* The loop of __init__ that appends one bucket count per level.
RECURSIVE LevelLoop(_, _, _, _, _)
LevelLoop(i, remaining, total, alpha, counts) ==
    IF i >= alpha THEN counts
    ELSE LET a_i == LevelSize(total, alpha, i) IN
         IF remaining <= 0 \/ a_i <= 0 THEN counts
         ELSE LevelLoop(i + 1, remaining - Min(a_i, remaining), total, alpha,
                        Append(counts, Min(a_i, remaining)))

\* level_bucket_counts as a sequence (1-based), in level order.
LevelBucketCountsOf(cap, delta) ==
    LevelLoop(0, PrimarySizeOf(cap, delta) \div BetaOf(delta),
              PrimarySizeOf(cap, delta) \div BetaOf(delta), AlphaOf(delta), <<>>)

\* max(1, int(ceil(log(log(capacity + 1) + 1)))): the value is 1 up to
\* capacity 4 (ln(5)+1 < e < ln(6)+1), 2 up to capacity 594
\* (ln(595)+1 < e^2 < ln(596)+1), 3 up to capacity 194,421,087 and 4 beyond.
ProbeLimitOf(cap) ==
    IF cap <= 4 THEN 1
    ELSE IF cap <= 594 THEN 2
    ELSE IF cap <= 194421087 THEN 3
    ELSE 4

\* ----------------------------------------------------------------- state
VARIABLES
    capacity,             \* int capacity
    delta,                \* double delta, as <<numerator, denominator>>
    max_inserts,          \* int max_inserts
    alpha,                \* int alpha
    beta,                 \* int beta
    special_size,         \* int special_size
    primary_size,         \* int primary_size
    level_bucket_counts,  \* list[int], level index -> bucket count
    level_salts,          \* list[int], level index -> salt
    special_salt,         \* int special_salt
    levels,               \* list[list[_Entry]], level index -> slot index -> entry
    special_array,        \* list[_Entry], slot index -> entry
    num_inserts,          \* int num_inserts
    special_occupancy,    \* int special_occupancy
    result,               \* the last call and how it ended: [op, raised]
    history,              \* [pure, pairs]: pure while every call since
                          \* construction was a get, an insert that raised, or
                          \* a successful insert of a key not inserted before;
                          \* pairs are then the (key, value) pairs inserted,
                          \* else {}
    balance               \* successful insert calls minus successful
                          \* __delitem__ calls (those pop and clear make
                          \* included) since construction

params == <<capacity, delta, max_inserts, alpha, beta, special_size,
            primary_size, level_bucket_counts, level_salts, special_salt>>
vars == <<params, levels, special_array, num_inserts, special_occupancy, result,
          history, balance>>

\* The mutable part of the table, as one record the operations work on.
Table == [levels |-> levels, special_array |-> special_array,
          num_inserts |-> num_inserts, special_occupancy |-> special_occupancy]

\* len(self.levels)
NumLevels == Cardinality(DOMAIN level_bucket_counts)

\* A list built from a 1-based sequence, indexed from 0 as in the source.
ListOf(seq) == [i \in 0 .. Len(seq) - 1 |-> seq[i + 1]]

\* The exceptions the calls raise ("" when a call returns normally).
NoError == ""
FullError == "RuntimeError: Hash table is full."
SpecialFullError == "RuntimeError: Special array insertion failed; table is full."
KeyError == "KeyError"
ValueError == "ValueError"

\* What a call hands back: the table it leaves, the exception it raised and
\* the value it returned (None when it returns nothing).
Outcome(t, raised, ret) == [t |-> t, raised |-> raised, ret |-> ret]

\* ------------------------------------------------------------ __init__
\* FunnelHashTable(capacity, None, delta): the derived constants, one fresh
\* salt per level and for the special array, and every slot _Entry().
InitAs(cfg) ==
    LET cap == cfg[1]
        d == <<cfg[2], cfg[3]>>
        counts == LevelBucketCountsOf(cap, d)
    IN  /\ capacity = cap
        /\ delta = d
        /\ num_inserts = 0
        /\ special_occupancy = 0
        /\ max_inserts = MaxInsertsOf(cap, d)
        /\ alpha = AlphaOf(d)
        /\ beta = BetaOf(d)
        /\ special_size = SpecialSizeOf(cap, d)
        /\ primary_size = PrimarySizeOf(cap, d)
        /\ level_bucket_counts = ListOf(counts)
        /\ levels = [i \in 0 .. Len(counts) - 1 |->
                        [idx \in 0 .. counts[i + 1] * BetaOf(d) - 1 |-> EmptyEntry]]
        /\ level_salts \in [0 .. Len(counts) - 1 -> SaltSet]
        /\ special_array = [idx \in 0 .. SpecialSizeOf(cap, d) - 1 |-> EmptyEntry]
        /\ special_salt \in SaltSet
        /\ result = [op |-> "init", raised |-> NoError]
        /\ history = [pure |-> TRUE, pairs |-> {}]
        /\ balance = 0

Init == \E cfg \in Configs : InitAs(cfg)

\* The object as allocated, before __init__ has run on its arguments: the
\* int fields are 0 and the lists hold nothing.  capacity and delta hold the
\* arguments of the call.
New ==
    \E cap \in Capacities, d \in Deltas :
        /\ capacity = cap
        /\ delta = d
        /\ num_inserts = 0
        /\ special_occupancy = 0
        /\ max_inserts = 0
        /\ alpha = 0
        /\ beta = 0
        /\ special_size = 0
        /\ primary_size = 0
        /\ level_bucket_counts = <<>>
        /\ levels = <<>>
        /\ level_salts = <<>>
        /\ special_array = <<>>
        /\ special_salt = 0
        /\ result = [op |-> "new", raised |-> NoError]
        /\ history = [pure |-> TRUE, pairs |-> {}]
        /\ balance = 0

\* if capacity < 1 ... if not (0 < delta < 1)
ValidArguments(cap, d) == cap >= 1 /\ 0 < d[1] /\ d[1] < d[2]

\* __init__(capacity, None, delta) on the object as allocated.
Construct ==
    /\ result.op = "new"
    /\ IF ~ValidArguments(capacity, delta)
       THEN /\ result' = [op |-> "init", raised |-> ValueError]
            /\ UNCHANGED <<params, levels, special_array, num_inserts,
                           special_occupancy, history, balance>>
       ELSE LET counts == LevelBucketCountsOf(capacity, delta) IN
            /\ max_inserts' = MaxInsertsOf(capacity, delta)
            /\ alpha' = AlphaOf(delta)
            /\ beta' = BetaOf(delta)
            /\ special_size' = SpecialSizeOf(capacity, delta)
            /\ primary_size' = PrimarySizeOf(capacity, delta)
            /\ level_bucket_counts' = ListOf(counts)
            /\ levels' = [i \in 0 .. Len(counts) - 1 |->
                             [idx \in 0 .. counts[i + 1] * BetaOf(delta) - 1 |->
                                  EmptyEntry]]
            /\ level_salts' \in [0 .. Len(counts) - 1 -> SaltSet]
            /\ special_array' =
                   [idx \in 0 .. SpecialSizeOf(capacity, delta) - 1 |-> EmptyEntry]
            /\ special_salt' \in SaltSet
            /\ result' = [op |-> "init", raised |-> NoError]
            /\ UNCHANGED <<capacity, delta, num_inserts, special_occupancy,
                           history, balance>>

\* The constructor alone, on every pair of arguments.
ConstructSpec == New /\ [][Construct]_vars

\* --------------------------------------------------------------- hashing
\* HashLevel with the key left out: every key hashes alike.
HashLevelNoKey(key, i) == Hash(0, level_salts[i])

\* _hash_level(key, level_index)
HashLevel(key, i) == Hash(key, level_salts[i])

\* _hash_special(key)
HashSpecial(key) == Hash(key, special_salt)

\* BucketStart with the bucket index dropped: every key scans bucket 0.
BucketStartZero(key, i) == 0

\* start = bucket_index * beta, the first slot of key's bucket in level i
BucketStart(key, i) == (HashLevel(key, i) % level_bucket_counts[i]) * beta

\* probe_limit of insert, get and __delitem__
ProbeLimit == ProbeLimitOf(capacity)

\* idx = (_hash_special(key) + j) % size
ProbeIndex(t, key, j) == (HashSpecial(key) + j) % Cardinality(DOMAIN t.special_array)

\* A scan that ran off the end of its range without a hit.
NoSlot == -1

\* ---------------------------------------------------------------- insert
\* IsFull with the comparison off by one.
IsFullStrict(t) == t.num_inserts > max_inserts

\* if self.num_inserts >= self.max_inserts
IsFull(t) == t.num_inserts >= max_inserts

\* InsertAccepts without the test for the key: only a free slot is taken.
InsertAcceptsFreeOnly(e, key) == ~e.occupied

\* InsertAccepts with the key comparison inverted.
InsertAcceptsOtherKey(e, key) == ~e.occupied \/ e.key # key

\* The test insert applies to a slot: free, or already holding the key.
InsertAccepts(e, key) == ~e.occupied \/ e.key = key

\* for idx in range(start, end): the first slot insert accepts, or NoSlot.
RECURSIVE InsertScan(_, _, _, _)
InsertScan(slots, key, idx, end) ==
    IF idx >= end THEN NoSlot
    ELSE IF InsertAccepts(slots[idx], key) THEN idx
    ELSE InsertScan(slots, key, idx + 1, end)

\* for j in range(probe_limit): the first probe insert accepts, or NoSlot.
RECURSIVE InsertProbe(_, _, _)
InsertProbe(t, key, j) ==
    IF j >= ProbeLimit THEN NoSlot
    ELSE IF InsertAccepts(t.special_array[ProbeIndex(t, key, j)], key) THEN j
    ELSE InsertProbe(t, key, j + 1)

\* The special-array half of insert.
InsertSpecial(t, key, value) ==
    LET j == InsertProbe(t, key, 0) IN
    IF j # NoSlot
    THEN Outcome([t EXCEPT !.special_array[ProbeIndex(t, key, j)] = Entry(key, value),
                           !.special_occupancy = @ + 1,
                           !.num_inserts = @ + 1], NoError, None)
    ELSE Outcome(t, SpecialFullError, None)

\* for i in range(len(self.levels)), from level i on.
RECURSIVE InsertLevels(_, _, _, _)
InsertLevels(t, key, value, i) ==
    IF i >= NumLevels THEN InsertSpecial(t, key, value)
    ELSE LET start == BucketStart(key, i)
             idx == InsertScan(t.levels[i], key, start, start + beta)
         IN  IF idx # NoSlot
             THEN Outcome([t EXCEPT !.levels[i][idx] = Entry(key, value),
                                    !.num_inserts = @ + 1], NoError, None)
             ELSE InsertLevels(t, key, value, i + 1)

\* insert(key, value)
Insert(t, key, value) ==
    IF IsFull(t) THEN Outcome(t, FullError, None)
    ELSE InsertLevels(t, key, value, 0)

\* ------------------------------------------------------------------- get
\* Matches without the comparison of keys: any occupied slot is a hit.
MatchesAnyKey(e, key) == e.occupied

\* The test get and __delitem__ apply to a slot: occupied and holding the key.
Matches(e, key) == e.occupied /\ e.key = key

\* for idx in range(start, end): the first slot holding the key, or NoSlot.
RECURSIVE MatchScan(_, _, _, _)
MatchScan(slots, key, idx, end) ==
    IF idx >= end THEN NoSlot
    ELSE IF Matches(slots[idx], key) THEN idx
    ELSE MatchScan(slots, key, idx + 1, end)

\* for j in range(probe_limit): the first probe holding the key, or NoSlot.
RECURSIVE MatchProbe(_, _, _)
MatchProbe(t, key, j) ==
    IF j >= ProbeLimit THEN NoSlot
    ELSE IF Matches(t.special_array[ProbeIndex(t, key, j)], key) THEN j
    ELSE MatchProbe(t, key, j + 1)

\* The special-array half of get, and its ending.
GetSpecial(t, key, default_value) ==
    LET j == MatchProbe(t, key, 0) IN
    IF j # NoSlot
    THEN Outcome(t, NoError, t.special_array[ProbeIndex(t, key, j)].value)
    ELSE IF default_value = NO_FALLBACK
         THEN Outcome(t, KeyError, None)
         ELSE Outcome(t, NoError, default_value)

\* for i in range(len(self.levels)), from level i on.
RECURSIVE GetLevels(_, _, _, _)
GetLevels(t, key, default_value, i) ==
    IF i >= NumLevels THEN GetSpecial(t, key, default_value)
    ELSE LET start == BucketStart(key, i)
             idx == MatchScan(t.levels[i], key, start, start + beta)
         IN  IF idx # NoSlot
             THEN Outcome(t, NoError, t.levels[i][idx].value)
             ELSE GetLevels(t, key, default_value, i + 1)

\* get(key, default_value)
Get(t, key, default_value) == GetLevels(t, key, default_value, 0)

\* __getitem__(key)
GetItem(t, key) == Get(t, key, NO_FALLBACK)

\* __contains__(key)
Contains(t, key) == Get(t, key, NO_FALLBACK).raised # KeyError

\* Length as the number of occupied slots instead of the counter.
LengthOccupied(t) ==
    Cardinality({s \in UNION {{<<i, idx>> : idx \in DOMAIN t.levels[i]} :
                                  i \in DOMAIN t.levels} :
                     t.levels[s[1]][s[2]].occupied})
    + Cardinality({idx \in DOMAIN t.special_array : t.special_array[idx].occupied})

\* __len__()
Length(t) == t.num_inserts

\* ----------------------------------------------------------- __delitem__
\* The special-array half of __delitem__, and its ending.
DelSpecial(t, key) ==
    LET j == MatchProbe(t, key, 0) IN
    IF j # NoSlot
    THEN Outcome([t EXCEPT !.special_array[ProbeIndex(t, key, j)] = EmptyEntry,
                           !.special_occupancy = @ - 1,
                           !.num_inserts = @ - 1], NoError, None)
    ELSE Outcome(t, KeyError, None)

\* for i in range(len(self.levels)), from level i on.
RECURSIVE DelLevels(_, _, _)
DelLevels(t, key, i) ==
    IF i >= NumLevels THEN DelSpecial(t, key)
    ELSE LET start == BucketStart(key, i)
             idx == MatchScan(t.levels[i], key, start, start + beta)
         IN  IF idx # NoSlot
             THEN Outcome([t EXCEPT !.levels[i][idx] = EmptyEntry,
                                    !.num_inserts = @ - 1], NoError, None)
             ELSE DelLevels(t, key, i + 1)

\* __delitem__(key)
DelItem(t, key) == DelLevels(t, key, 0)

\* ------------------------------------------------------------------- pop
\* pop(key, default): value = self[key]; del self[key]; a KeyError of either
\* is re-raised, or swallowed when a default was given.
Pop(t, key, default) ==
    LET g == GetItem(t, key)
        d == DelItem(t, key)
    IN  IF g.raised = NoError /\ d.raised = NoError
        THEN Outcome(d.t, NoError, g.ret)
        ELSE IF default = NO_FALLBACK
             THEN Outcome(t, KeyError, None)
             ELSE Outcome(t, NoError, default)

\* ----------------------------------------------------------------- items
\* The occupied entries of slots idx.. of one list, in slot order.
RECURSIVE ItemsOfList(_, _)
ItemsOfList(slots, idx) ==
    IF idx >= Cardinality(DOMAIN slots) THEN <<>>
    ELSE (IF slots[idx].occupied
          THEN << <<slots[idx].key, slots[idx].value>> >>
          ELSE <<>>) \o ItemsOfList(slots, idx + 1)

\* for level in self.levels, from level i on.
RECURSIVE ItemsOfLevels(_, _)
ItemsOfLevels(t, i) ==
    IF i >= NumLevels THEN <<>>
    ELSE ItemsOfList(t.levels[i], 0) \o ItemsOfLevels(t, i + 1)

\* Items with the special array scanned before the levels.
ItemsSpecialFirst(t) == ItemsOfList(t.special_array, 0) \o ItemsOfLevels(t, 0)

\* Items without the scan of the special array.
ItemsLevelsOnly(t) == ItemsOfLevels(t, 0)

\* items(): every level in order, then the special array.
Items(t) == ItemsOfLevels(t, 0) \o ItemsOfList(t.special_array, 0)

\* keys()
KeysOf(t) == [n \in 1 .. Len(Items(t)) |-> Items(t)[n][1]]

\* ----------------------------------------------------------------- clear
\* for key in keys: del self[key]; the first KeyError ends the loop.
RECURSIVE ClearLoop(_, _, _)
ClearLoop(t, keys, n) ==
    IF n > Len(keys) THEN Outcome(t, NoError, None)
    ELSE LET d == DelItem(t, keys[n]) IN
         IF d.raised # NoError THEN Outcome(t, d.raised, None)
         ELSE ClearLoop(d.t, keys, n + 1)

\* clear()
Clear(t) == ClearLoop(t, KeysOf(t), 1)

\* The number of del self[key] of that loop that return normally.
RECURSIVE ClearDeletes(_, _, _)
ClearDeletes(t, keys, n) ==
    IF n > Len(keys) THEN 0
    ELSE LET d == DelItem(t, keys[n]) IN
         IF d.raised # NoError THEN 0
         ELSE 1 + ClearDeletes(d.t, keys, n + 1)

\* ----------------------------------------------------------------- calls
\* One public call, run to completion: the table it leaves and how it ended.
Call(op, o, h) ==
    /\ levels' = o.t.levels
    /\ special_array' = o.t.special_array
    /\ num_inserts' = o.t.num_inserts
    /\ special_occupancy' = o.t.special_occupancy
    /\ result' = [op |-> op, raised |-> o.raised]
    /\ history' = h
    /\ UNCHANGED params

\* The history once a delete, a pop, a clear or a successful insert of a key
\* inserted before has been made.
Impure == [pure |-> FALSE, pairs |-> {}]

\* The keys of the pairs a pure history holds.
InsertedKeys == {p[1] : p \in history.pairs}

InsertCall(key, value) ==
    LET o == Insert(Table, key, value) IN
    /\ Call("insert", o,
            IF o.raised # NoError THEN history
            ELSE IF history.pure /\ key \notin InsertedKeys
            THEN [pure |-> TRUE, pairs |-> history.pairs \cup {<<key, value>>}]
            ELSE Impure)
    /\ balance' = IF o.raised = NoError THEN balance + 1 ELSE balance

GetCall(key, default_value) ==
    /\ Call("get", Get(Table, key, default_value), history)
    /\ UNCHANGED balance

\* list(table.items()): one full iteration.
ItemsCall ==
    /\ Call("items", Outcome(Table, NoError, Items(Table)), history)
    /\ UNCHANGED balance

DelCall(key) ==
    LET o == DelItem(Table, key) IN
    /\ Call("delitem", o, Impure)
    /\ balance' = IF o.raised = NoError THEN balance - 1 ELSE balance

\* pop deletes through del self[key], once, when it returns the key's value.
PopCall(key, default) ==
    LET o == Pop(Table, key, default) IN
    /\ Call("pop", o, Impure)
    /\ balance' = IF GetItem(Table, key).raised = NoError
                     /\ DelItem(Table, key).raised = NoError
                  THEN balance - 1 ELSE balance

ClearCall ==
    /\ Call("clear", Clear(Table), Impure)
    /\ balance' = balance - ClearDeletes(Table, KeysOf(Table), 1)

\* The defaults a caller passes: a value, or nothing.
Defaults == Values \cup {NO_FALLBACK}

Next ==
    \/ \E key \in Keys, value \in Values : InsertCall(key, value)
    \/ \E key \in Keys, default_value \in Defaults : GetCall(key, default_value)
    \/ ItemsCall
    \/ \E key \in Keys : DelCall(key)
    \/ \E key \in Keys, default \in Defaults : PopCall(key, default)
    \/ ClearCall

Spec == Init /\ [][Next]_vars

\* ---------------------------------------------------- the mutating runs
\* insert, del, items() and clear() alone: get changes nothing and pop
\* changes the table only through del self[key], so these runs visit every
\* table the calls of Next can leave.
CoreNext ==
    \/ \E key \in Keys, value \in Values : InsertCall(key, value)
    \/ \E key \in Keys : DelCall(key)
    \/ ItemsCall
    \/ ClearCall

CoreSpec == Init /\ [][CoreNext]_vars

\* ------------------------------------------------ the insert/delete runs
\* capacity=16, delta=0.875 (a level of two 1-slot buckets, then four levels
\* of one, special_size 10, max_inserts 2) beside the tables of Configs.
WideConfigs == Configs \cup { <<16, 7, 8>> }

\* One key more than Keys, so that two keys share a bucket of a two-bucket
\* level whatever its salt.
WideKeys == 0 .. MaxKey + 1

WideInit == \E cfg \in WideConfigs : InitAs(cfg)

\* The keys the calls of these runs are made with: the table with the
\* two-bucket level gets the extra key.
CallKeys == IF NumLevels >= 1 /\ level_bucket_counts[0] >= 2 THEN WideKeys ELSE Keys

\* insert and del alone, which make every table the calls can leave.
WideNext ==
    \/ \E key \in CallKeys, value \in Values : InsertCall(key, value)
    \/ \E key \in CallKeys : DelCall(key)

WideSpec == WideInit /\ [][WideNext]_vars

\* --------------------------------------------- the runs without a delete
\* Runs in which no delete, pop or clear succeeds: inserts, re-inserts and
\* lookups, and the deletes and pops that end in KeyError or the default.
GrowNext ==
    \/ \E key \in WideKeys, value \in Values : InsertCall(key, value)
    \/ \E key \in WideKeys, default_value \in Defaults : GetCall(key, default_value)
    \/ ItemsCall
    \/ \E key \in WideKeys : DelItem(Table, key).raised # NoError /\ DelCall(key)
    \/ \E key \in WideKeys, default \in Defaults :
           DelItem(Table, key).raised # NoError /\ PopCall(key, default)

GrowSpec == Init /\ [][GrowNext]_vars

\* --------------------------------------------------- the fresh-table runs
\* capacity=30, delta=0.1 (four levels of one 7-slot bucket, special_size 2,
\* max_inserts 27) beside the tables of Configs.
FreshConfigs == Configs \cup { <<30, 1, 10>> }

FreshInit == \E cfg \in FreshConfigs : InitAs(cfg)

\* Keys not inserted before are inserted one after another, with lookups and
\* iterations in between.
FreshNext ==
    \/ \E key \in Keys \ InsertedKeys, value \in Values : InsertCall(key, value)
    \/ \E key \in Keys, default_value \in Defaults : GetCall(key, default_value)
    \/ ItemsCall

FreshSpec == FreshInit /\ [][FreshNext]_vars

\* =================================================================
\* Properties
\* =================================================================
\* The slots of the levels, as <<level index, slot index>>.
LevelSlots(t) ==
    UNION {{<<i, idx>> : idx \in DOMAIN t.levels[i]} : i \in DOMAIN t.levels}

\* The occupied slots of the levels and of the special array.
OccupiedLevelSlots(t) == {s \in LevelSlots(t) : t.levels[s[1]][s[2]].occupied}
OccupiedSpecialSlots(t) ==
    {idx \in DOMAIN t.special_array : t.special_array[idx].occupied}

\* The number of occupied slots, levels and special array together.
OccupiedCount(t) ==
    Cardinality(OccupiedLevelSlots(t)) + Cardinality(OccupiedSpecialSlots(t))

\* The number of occupied slots that hold key.
HoldingCount(t, key) ==
    Cardinality({s \in OccupiedLevelSlots(t) : t.levels[s[1]][s[2]].key = key})
    + Cardinality({idx \in OccupiedSpecialSlots(t) : t.special_array[idx].key = key})

\* key's designated bucket in every level, and every slot of its probe
\* window, is occupied by another key.
Blocked(t, key) ==
    /\ \A i \in DOMAIN t.levels :
           \A idx \in BucketStart(key, i) .. BucketStart(key, i) + beta - 1 :
               t.levels[i][idx].occupied /\ t.levels[i][idx].key # key
    /\ \A j \in 0 .. ProbeLimit - 1 :
           /\ t.special_array[ProbeIndex(t, key, j)].occupied
           /\ t.special_array[ProbeIndex(t, key, j)].key # key

\* What the calls that are not delete(key), pop(key), clear() or a successful
\* insert of key leave behind, from the current table: an insert, delete or
\* pop of another key, a get of any key, an insert of key that raises.
OtherCalls(key) ==
    {Insert(Table, k2, v) : k2 \in Keys \ {key}, v \in Values}
    \cup {o \in {Insert(Table, key, v) : v \in Values} : o.raised # NoError}
    \cup {Get(Table, k2, d) : k2 \in Keys, d \in Defaults}
    \cup {DelItem(Table, k2) : k2 \in Keys \ {key}}
    \cup {Pop(Table, k2, d) : k2 \in Keys \ {key}, d \in Defaults}

\* C1: after insert(k, v) succeeds, get(k) returns v and k is in the table,
\* and every call other than delete(k), pop(k), clear() or a successful
\* insert of k leaves get(k) returning the same value.
C1_InsertThenGet ==
    \A k \in Keys :
        /\ \A v \in Values :
               \A o \in {Insert(Table, k, v)} :
                   o.raised = NoError =>
                       \A g \in {GetItem(o.t, k)} :
                           g.raised = NoError /\ g.ret = v /\ Contains(o.t, k)
        /\ \A now \in {GetItem(Table, k)} :
               now.raised = NoError =>
                   \A o \in OtherCalls(k) :
                       \A g \in {GetItem(o.t, k)} :
                           g.raised = NoError /\ g.ret = now.ret /\ Contains(o.t, k)

\* C1 witness: an insert has just succeeded, and the table holds two
\* different keys, so each has lived through a call on the other.
C1_Witness ==
    /\ result.op = "insert" /\ result.raised = NoError
    /\ \E k1 \in Keys, k2 \in Keys : k1 # k2 /\ Contains(Table, k1) /\ Contains(Table, k2)

\* C2 (as claimed): after delete(k) succeeds, get(k) raises KeyError and k
\* is not in the table.
C2_DeleteThenAbsent ==
    \A k \in Keys :
        LET d == DelItem(Table, k) IN
        d.raised = NoError =>
            /\ GetItem(d.t, k).raised = KeyError
            /\ ~Contains(d.t, k)

\* C3 (as claimed): every key is stored in at most one occupied slot.
C3_KeyInAtMostOneSlot == \A k \in Keys : HoldingCount(Table, k) <= 1

\* C4 (as claimed): a successful insert of a key that is already in the
\* table leaves the number of occupied slots unchanged.
C4_ReinsertKeepsOccupiedCount ==
    \A k \in Keys, v \in Values :
        LET o == Insert(Table, k, v) IN
        (Contains(Table, k) /\ o.raised = NoError) =>
            OccupiedCount(o.t) = OccupiedCount(Table)

\* C5: whenever num_inserts >= max_inserts, insert(k, v) raises the
\* capacity-exhaustion error for every key and leaves the table unchanged;
\* and a call of insert made in such a state has ended that way.
C5_FullInsertRaises ==
    num_inserts >= max_inserts =>
        \A k \in Keys, v \in Values :
            Insert(Table, k, v) = Outcome(Table, FullError, None)

\* C5 witness: insert has just raised the capacity-exhaustion error, in a
\* table that holds one key and not another.
C5_Witness ==
    /\ result.op = "insert" /\ result.raised = FullError
    /\ num_inserts >= max_inserts
    /\ \E k1 \in Keys, k2 \in Keys : Contains(Table, k1) /\ ~Contains(Table, k2)

\* C6: with num_inserts < max_inserts, when k's bucket in every level and
\* every slot of k's probe window hold other keys, insert(k, v) raises the
\* placement failure and leaves the table unchanged.
C6_BlockedInsertRaises ==
    \A k \in Keys, v \in Values :
        (num_inserts < max_inserts /\ Blocked(Table, k)) =>
            Insert(Table, k, v) = Outcome(Table, SpecialFullError, None)

\* C6 witness: insert has just raised the placement failure below
\* max_inserts, for a key that is blocked everywhere.
C6_Witness ==
    /\ result.op = "insert" /\ result.raised = SpecialFullError
    /\ num_inserts < max_inserts
    /\ \E k \in Keys : Blocked(Table, k)

\* The table of the scenario: FunnelHashTable(capacity=5, delta=0.2).
IsCapacity5Delta02 == capacity = 5 /\ delta = <<1, 5>>

\* The pairs of the history are all retrievable.
HistoryRetrievable ==
    \A p \in history.pairs : GetItem(Table, p[1]) = Outcome(Table, NoError, p[2])

\* C7 (as claimed): in the table of capacity 5 and delta 0.2, while distinct
\* keys are inserted one after another, the insert of a further key succeeds
\* as long as fewer than max_inserts keys are in, raises the
\* capacity-exhaustion error once max_inserts are in, and the keys inserted
\* stay retrievable.
C7_FirstMaxInsertsSucceed ==
    (IsCapacity5Delta02 /\ history.pure) =>
        /\ max_inserts = 4
        /\ HistoryRetrievable
        /\ \A k \in Keys \ InsertedKeys, v \in Values :
               IF Cardinality(history.pairs) < max_inserts
               THEN Insert(Table, k, v).raised = NoError
               ELSE Insert(Table, k, v) = Outcome(Table, FullError, None)

\* C7 (amended): in the table of capacity 5 and delta 0.2 (max_inserts 4, no
\* level, one special slot), while distinct keys are inserted one after
\* another, only the first insert succeeds: the insert of every further key
\* raises the placement failure with num_inserts = 1 < max_inserts, leaves
\* the table unchanged, and the key inserted stays retrievable.
C7_OnlyFirstInsertSucceeds ==
    (IsCapacity5Delta02 /\ history.pure) =>
        /\ max_inserts = 4
        /\ HistoryRetrievable
        /\ history.pairs = {} =>
               \A k \in Keys, v \in Values : Insert(Table, k, v).raised = NoError
        /\ history.pairs # {} =>
               /\ Cardinality(history.pairs) = 1
               /\ num_inserts = 1
               /\ \A k \in Keys \ InsertedKeys, v \in Values :
                      Insert(Table, k, v) = Outcome(Table, SpecialFullError, None)

\* C7 witness: in that table, one key is in and the insert of another key
\* has just raised the placement failure.
C7_Witness ==
    /\ IsCapacity5Delta02 /\ history.pure /\ history.pairs # {}
    /\ result.op = "insert" /\ result.raised = SpecialFullError

\* C8 (as claimed): after clear() returns, len(table) = 0 and
\* special_occupancy = 0.
C8_ClearZeroesCounters ==
    (result.op = "clear" /\ result.raised = NoError) =>
        (Length(Table) = 0 /\ special_occupancy = 0)

\* C9: clear() never raises KeyError, and after it every slot of every
\* level and of the special array is unoccupied and items() yields nothing.
C9_ClearEmptiesTable ==
    /\ Clear(Table).raised = NoError
    /\ result.op = "clear" =>
           /\ result.raised = NoError
           /\ OccupiedCount(Table) = 0
           /\ Items(Table) = <<>>

\* C9 witness: a clear() has returned on a table whose counter says it had
\* held entries.
C9_Witness ==
    result.op = "clear" /\ result.raised = NoError /\ num_inserts > 0

\* C10: from the empty table, after n distinct keys were inserted in any
\* order, items() yields exactly the n pairs inserted, each once, and get
\* returns each key's value.
C10_RoundTrip ==
    history.pure =>
        /\ {Items(Table)[n] : n \in 1 .. Len(Items(Table))} = history.pairs
        /\ Len(Items(Table)) = Cardinality(history.pairs)
        /\ HistoryRetrievable
        /\ \A k \in Keys \ InsertedKeys : ~Contains(Table, k)

\* C10 witness: two keys are in, the larger one stored first: the order of
\* insertion shows in the layout, and the other order is reachable too.
C10_Witness ==
    /\ history.pure /\ Cardinality(history.pairs) = 2
    /\ Len(Items(Table)) = 2
    /\ Items(Table)[1][1] > Items(Table)[2][1]

\* C11: for a key that no occupied slot holds, get(k), delete(k) and pop(k)
\* raise KeyError, get(k, d) and pop(k, d) return d, and each of them leaves
\* every slot and both counters as they were.
C11_AbsentKeyCalls ==
    \A k \in Keys :
        HoldingCount(Table, k) = 0 =>
            /\ Get(Table, k, NO_FALLBACK) = Outcome(Table, KeyError, None)
            /\ DelItem(Table, k) = Outcome(Table, KeyError, None)
            /\ Pop(Table, k, NO_FALLBACK) = Outcome(Table, KeyError, None)
            /\ \A d \in Values :
                   /\ Get(Table, k, d) = Outcome(Table, NoError, d)
                   /\ Pop(Table, k, d) = Outcome(Table, NoError, d)

\* C11 witness: pop(k) has just raised KeyError for a key no slot holds,
\* while the slots k is looked for in hold another key.
C11_Witness ==
    /\ result.op = "pop" /\ result.raised = KeyError
    /\ \E k \in Keys : HoldingCount(Table, k) = 0 /\ Blocked(Table, k)

\* The keys some occupied slot holds.
StoredKeys(t) == {k \in Keys : HoldingCount(t, k) > 0}

\* C12: len(table) is the number of successful inserts minus the number of
\* successful deletes since construction, and every successful insert raises
\* it by exactly 1, an insert that overwrites the key's slot included.
C12_LenIsInsertsMinusDeletes ==
    /\ Length(Table) = balance
    /\ \A k \in Keys, v \in Values :
           \A o \in {Insert(Table, k, v)} :
               o.raised = NoError => Length(o.t) = Length(Table) + 1
    /\ \A k \in Keys :
           \A o \in {DelItem(Table, k)} :
               o.raised = NoError => Length(o.t) = Length(Table) - 1

\* C12 witness: after an insert that overwrote a key's slot, the length
\* exceeds the number of distinct keys stored.
C12_Witness ==
    /\ result.op = "insert" /\ result.raised = NoError
    /\ Length(Table) = balance
    /\ Length(Table) > Cardinality(StoredKeys(Table))
    /\ OccupiedCount(Table) = Cardinality(StoredKeys(Table))

\* level_bucket_counts[0] + ... + level_bucket_counts[n - 1]
RECURSIVE BucketsUpTo(_)
BucketsUpTo(n) == IF n = 0 THEN 0 ELSE level_bucket_counts[n - 1] + BucketsUpTo(n - 1)

\* __init__ has returned normally.
Constructed == result.op = "init" /\ result.raised = NoError

\* C13: for every valid (capacity, delta), the levels and the special array
\* are allocated level_bucket_counts[i] * beta and special_size slots, these
\* sum to at most capacity, every level has at least one bucket, and the
\* bucket counts sum to at most primary_size // beta.
C13_SlotsWithinCapacity ==
    Constructed =>
        /\ ValidArguments(capacity, delta)
        /\ \A i \in DOMAIN levels :
               Cardinality(DOMAIN levels[i]) = level_bucket_counts[i] * beta
        /\ Cardinality(DOMAIN special_array) = special_size
        /\ BucketsUpTo(NumLevels) * beta + special_size <= capacity
        /\ Cardinality(LevelSlots(Table)) + Cardinality(DOMAIN special_array) <= capacity
        /\ \A i \in DOMAIN level_bucket_counts : level_bucket_counts[i] >= 1
        /\ BucketsUpTo(NumLevels) <= primary_size \div beta

\* C13 witness: a table constructed with a level of several buckets, whose
\* slots use the capacity up.
C13_Witness ==
    /\ Constructed
    /\ \E i \in DOMAIN level_bucket_counts : level_bucket_counts[i] >= 2
    /\ BucketsUpTo(NumLevels) * beta + special_size = capacity

\* The table of the scenario: FunnelHashTable(capacity=30, delta=0.1).
IsCapacity30Delta01 == capacity = 30 /\ delta = <<1, 10>>

\* C14: the table of capacity 30 and delta 0.1 has max_inserts 27, beta 7,
\* special_size 2 and level bucket counts [1, 1, 1, 1]; after any two distinct
\* keys were inserted into it fresh, len is 2, both keys are in the table,
\* both are stored in level 1 (index 0), and the special array is empty with
\* special_occupancy 0.
C14_TwoKeysInLevelOne ==
    IsCapacity30Delta01 =>
        /\ max_inserts = 27 /\ beta = 7 /\ special_size = 2
        /\ level_bucket_counts = ListOf(<<1, 1, 1, 1>>)
        /\ (history.pure /\ Cardinality(history.pairs) = 2) =>
               /\ Length(Table) = 2
               /\ \A p \in history.pairs :
                      /\ Contains(Table, p[1])
                      /\ \E idx \in DOMAIN levels[0] : levels[0][idx] = Entry(p[1], p[2])
               /\ \A s \in OccupiedLevelSlots(Table) : s[1] = 0
               /\ OccupiedCount(Table) = 2
               /\ OccupiedSpecialSlots(Table) = {}
               /\ special_occupancy = 0

\* C14 witness: the second of two distinct keys has just been inserted into
\* that table.
C14_Witness ==
    /\ IsCapacity30Delta01
    /\ history.pure /\ Cardinality(history.pairs) = 2
    /\ result.op = "insert" /\ result.raised = NoError

\* key's designated bucket in level i, and the slots of bucket b.
DesignatedBucket(key, i) == Hash(key, level_salts[i]) % level_bucket_counts[i]
BucketSlots(b) == (b * beta) .. (b * beta + beta - 1)

\* The slots of key's designated bucket in level i that are unoccupied or
\* hold key, and the levels that have one.
OpenSlots(t, key, i) ==
    {idx \in BucketSlots(DesignatedBucket(key, i)) :
         ~t.levels[i][idx].occupied \/ t.levels[i][idx].key = key}
OpenLevels(t, key) == {i \in DOMAIN t.levels : OpenSlots(t, key, i) # {}}

\* The slot of the special array key's j-th probe looks at, and the probes
\* that find it unoccupied or holding key.
ProbeSlot(key, j) == (Hash(key, special_salt) + j) % special_size
OpenProbes(t, key) ==
    {j \in 0 .. ProbeLimit - 1 :
         \/ ~t.special_array[ProbeSlot(key, j)].occupied
         \/ t.special_array[ProbeSlot(key, j)].key = key}

MinOf(S) == CHOOSE x \in S : \A y \in S : x <= y

\* C15: a successful insert(k, v) writes one slot and nothing else but the
\* counters: the first slot that is unoccupied or holds k in k's designated
\* bucket of the lowest level whose designated bucket has such a slot; and
\* when no level has one, the slot of the first such probe of the special
\* array.  What it does is a function of k's designated buckets alone.
C15_InsertWritesDesignatedSlot ==
    \A k \in WideKeys, v \in Values :
        \A o \in {Insert(Table, k, v)} :
            o.raised = NoError =>
                IF OpenLevels(Table, k) # {}
                THEN LET i == MinOf(OpenLevels(Table, k))
                         idx == MinOf(OpenSlots(Table, k, i))
                     IN  o.t = [Table EXCEPT !.levels[i][idx] = Entry(k, v),
                                             !.num_inserts = @ + 1]
                ELSE /\ OpenProbes(Table, k) # {}
                     /\ o.t = [Table EXCEPT
                                  !.special_array[ProbeSlot(k, MinOf(OpenProbes(Table, k)))] =
                                      Entry(k, v),
                                  !.special_occupancy = @ + 1,
                                  !.num_inserts = @ + 1]

\* C15 witness: an insert has just stored a key in a level after the first,
\* while a bucket of the two-bucket first level, not the key's, is free.
C15_Witness ==
    /\ result.op = "insert" /\ result.raised = NoError
    /\ NumLevels >= 2 /\ level_bucket_counts[0] >= 2
    /\ \E s \in OccupiedLevelSlots(Table) : s[1] >= 1
    /\ \E idx \in DOMAIN levels[0] : ~levels[0][idx].occupied

\* The occupied slots of level i that hold key, the levels that have one,
\* and the probes of key that find it in the special array.
HoldingSlots(t, key, i) ==
    {idx \in DOMAIN t.levels[i] : t.levels[i][idx].occupied /\ t.levels[i][idx].key = key}
HoldingLevels(t, key) == {i \in DOMAIN t.levels : HoldingSlots(t, key, i) # {}}
HoldingProbes(t, key) ==
    {j \in 0 .. ProbeLimit - 1 :
         /\ t.special_array[ProbeSlot(key, j)].occupied
         /\ t.special_array[ProbeSlot(key, j)].key = key}

\* C16: a successful delete(k) resets one slot to the unoccupied default, the
\* first occupied slot holding k in the order levels first, then the probes
\* of the special array; it takes 1 off num_inserts, 1 off special_occupancy
\* only when that slot is in the special array, and leaves every other slot
\* as it was.
C16_DeleteResetsFirstSlot ==
    \A k \in WideKeys :
        \A o \in {DelItem(Table, k)} :
            o.raised = NoError =>
                IF HoldingLevels(Table, k) # {}
                THEN LET i == MinOf(HoldingLevels(Table, k))
                         idx == MinOf(HoldingSlots(Table, k, i))
                     IN  o.t = [Table EXCEPT !.levels[i][idx] = EmptyEntry,
                                             !.num_inserts = @ - 1]
                ELSE /\ HoldingProbes(Table, k) # {}
                     /\ o.t = [Table EXCEPT
                                  !.special_array[ProbeSlot(k, MinOf(HoldingProbes(Table, k)))] =
                                      EmptyEntry,
                                  !.special_occupancy = @ - 1,
                                  !.num_inserts = @ - 1]

\* C16 witness: a delete has just returned in a table with a level and a
\* special array, leaving a second copy of a key in the level and another
\* key in the special array.
C16_Witness ==
    /\ result.op = "delitem" /\ result.raised = NoError
    /\ \E k \in WideKeys : HoldingCount(Table, k) >= 2
    /\ OccupiedSpecialSlots(Table) # {}
    /\ special_occupancy >= 1

\* The slots of the table numbered in the order level 0..last, slot index
\* ascending within each level, then the special array ascending.
LevelOffset(i) == BucketsUpTo(i) * beta
SlotCount == LevelOffset(NumLevels) + special_size
LevelOfPosition(p) ==
    CHOOSE i \in DOMAIN levels : LevelOffset(i) <= p /\ p < LevelOffset(i + 1)
EntryAt(t, p) ==
    IF p < LevelOffset(NumLevels)
    THEN t.levels[LevelOfPosition(p)][p - LevelOffset(LevelOfPosition(p))]
    ELSE t.special_array[p - LevelOffset(NumLevels)]
OccupiedPositions(t) == {p \in 0 .. SlotCount - 1 : EntryAt(t, p).occupied}

\* The n-th occupied position, counting from 1.
NthOccupied(t, n) ==
    CHOOSE p \in OccupiedPositions(t) :
        Cardinality({q \in OccupiedPositions(t) : q < p}) = n - 1

\* items() yields one pair per occupied slot, in the order of the positions.
ItemsInSlotOrder ==
    /\ Len(Items(Table)) = Cardinality(OccupiedPositions(Table))
    /\ Len(Items(Table)) = OccupiedCount(Table)
    /\ \A n \in 1 .. Len(Items(Table)) :
           Items(Table)[n] = <<EntryAt(Table, NthOccupied(Table, n)).key,
                               EntryAt(Table, NthOccupied(Table, n)).value>>

\* A full iteration leaves every slot and both counters as they were.
ItemsChangesNothing ==
    result'.op = "items" =>
        /\ result'.raised = NoError
        /\ UNCHANGED <<levels, special_array, num_inserts, special_occupancy>>

\* C17: in every reachable state items() yields exactly one (key, value) pair
\* per occupied slot and nothing for an unoccupied one, in the order level
\* 0..last, slot ascending within a level, then the special array ascending;
\* and an iteration changes no slot and no counter.
C17_ItemsInSlotOrder == [](ItemsInSlotOrder) /\ [][ItemsChangesNothing]_vars

\* C17 witness: an iteration has just run over a table that holds a key in
\* the special array and one in a level behind an unoccupied slot.
C17_Witness ==
    /\ result.op = "items"
    /\ OccupiedSpecialSlots(Table) # {}
    /\ \E s \in OccupiedLevelSlots(Table) :
           s[2] >= 1 /\ ~levels[s[1]][s[2] - 1].occupied

\* C18: in every reachable state
\*   0 <= occupied slots <= num_inserts <= max_inserts  and
\*   0 <= occupied special slots <= special_occupancy <= num_inserts.
C18_CountersBoundOccupancy ==
    /\ 0 <= OccupiedCount(Table)
    /\ OccupiedCount(Table) <= num_inserts
    /\ num_inserts <= max_inserts
    /\ 0 <= Cardinality(OccupiedSpecialSlots(Table))
    /\ Cardinality(OccupiedSpecialSlots(Table)) <= special_occupancy
    /\ special_occupancy <= num_inserts

\* C18 witness: a full table whose counters both exceed what they count,
\* after overwrites in the special array.
C18_Witness ==
    /\ num_inserts = max_inserts
    /\ OccupiedCount(Table) < num_inserts
    /\ OccupiedSpecialSlots(Table) # {}
    /\ Cardinality(OccupiedSpecialSlots(Table)) < special_occupancy

\* The slots of the special array key's probes look at.
ProbeWindow(key) == {ProbeSlot(key, j) : j \in 0 .. ProbeLimit - 1}

OccupiedPrefix(t, i, b) ==
    \A idx \in BucketSlots(b) :
        t.levels[i][idx].occupied =>
            \A before \in b * beta .. idx - 1 : t.levels[i][before].occupied

\* C20: in a run from the empty table in which no delete, pop or clear
\* succeeds, no key is stored in more than one occupied slot, and the
\* occupied slots of every bucket of every level are a prefix of the bucket.
C20_NoDuplicateWithoutDelete ==
    /\ \A k \in WideKeys : HoldingCount(Table, k) <= 1
    /\ \A i \in DOMAIN levels :
           \A b \in 0 .. level_bucket_counts[i] - 1 : OccupiedPrefix(Table, i, b)

\* C20 witness: a key has just been re-inserted into a table whose 3-slot
\* level bucket is full of distinct keys.
C20_Witness ==
    /\ result.op = "insert" /\ result.raised = NoError
    /\ num_inserts > OccupiedCount(Table)
    /\ NumLevels >= 1 /\ beta >= 3
    /\ \A s \in LevelSlots(Table) : levels[s[1]][s[2]].occupied

====
